---- MODULE Spec2Model ----
(***************************************************************************)
(* Time-series analytics of src/services/core.py: compute_sma,             *)
(* compute_streak, compute_sdr and compute_max_profit, each modelled as    *)
(* the loop the source runs over close.values, one action per iteration.   *)
(*                                                                         *)
(* Prices are exact integers.  A float result is kept as an exact          *)
(* fraction num/den, so that "equals the mean" is an exact statement; the  *)
(* missing value (NaN / None) and the infinity numpy produces for x/0 are  *)
(* separate kinds of entry.  Python indices are 0-based: values[i] of the  *)
(* source is values[i + 1] here.                                           *)
(*                                                                         *)
(* The cleaning pipeline of src/services/data.py (has_missing, fill_gaps,  *)
(* remove_non_trading_days, clean_data, outlier_mask_iqr,                  *)
(* clean_outliers_iqr) works on                                            *)
(* `series`, a dated series that may hold missing values.  Each function   *)
(* is one vectorised pandas expression and so one action.  A date is a day *)
(* number whose remainder modulo 7 is pandas' dayofweek (0 = Monday).      *)
(*                                                                         *)
(* The UI adapters and filters (src/ui/adapters.py, src/ui/filters.py)     *)
(* work on `df`, a price table, and the trade helpers of the first         *)
(* application (app/utils/helpers.py) on `rows`, a list of row dicts.      *)
(* Six specifications share the variables: Spec (analytics), CleanSpec     *)
(* (filling and filtering), OutlierSpec (outlier functions), FrameSpec     *)
(* (all of these, interleaved), UiSpec and AppSpec.                        *)
(***************************************************************************)
EXTENDS Integers, Sequences, FiniteSets, TLC

\* ---- bounds of the model ----
MaxLen == 4
MaxPrice == 3
MaxStart == 1
MaxWindowSlack == 1
MaxRawLen == 3
MaxRawPrice == 2
MaxRows == 2

Prices == 0..MaxPrice
Windows == (0 - 1)..(MaxLen + MaxWindowSlack)

\* Sequences of prices of length 0..MaxLen.
PriceSeqs == UNION {[1..n -> Prices] : n \in 0..MaxLen}

\* The sequences the documentation uses as worked examples.
ExampleSeqs == {<<100, 110, 99>>, <<7, 1, 5, 3, 6, 4>>, <<0, 5>>}

\* ---- float entries ----
NaN == [kind |-> "nan", num |-> 0, den |-> 1]
Inf == [kind |-> "inf", num |-> 0, den |-> 1]
Float(a, b) == [kind |-> "num", num |-> a, den |-> b]

\* None in a list handed to pd.Series is a missing value, like NaN.
PyNone == NaN

IsMissing(x) == x.kind = "nan"

\* numpy scalar division: x / 0 is inf (nan for 0 / 0), never an exception.
NpTrueDiv(a, b) ==
    IF b = 0 THEN (IF a = 0 THEN NaN ELSE Inf) ELSE Float(a, b)

\* np.full(n, np.nan)
NpFullNaN(n) == [k \in 1..n |-> NaN]

\* np.zeros(n, dtype=int)
NpZeros(n) == [k \in 1..n |-> 0]

\* ---- pandas Series ----
EmptySeries == [index |-> <<>>, values |-> <<>>]

\* pd.Series(data, index=index): the data must be as long as the index.
PdSeriesOk(data, index) == Len(data) = Len(index)

PdSeries(data, index) ==
    IF PdSeriesOk(data, index)
    THEN [index |-> index, values |-> data]
    ELSE EmptySeries

PdSeriesStatus(data, index) ==
    IF PdSeriesOk(data, index) THEN "ok" ELSE "ValueError"

\* ---- float arithmetic on entries (NaN propagates, denominators > 0) ----
FSub(x, y) ==
    IF IsMissing(x) \/ IsMissing(y) THEN NaN
    ELSE Float(x.num * y.den - y.num * x.den, x.den * y.den)

FAdd(x, y) ==
    IF IsMissing(x) \/ IsMissing(y) THEN NaN
    ELSE Float(x.num * y.den + y.num * x.den, x.den * y.den)

FMul(x, y) ==
    IF IsMissing(x) \/ IsMissing(y) THEN NaN
    ELSE Float(x.num * y.num, x.den * y.den)

\* A comparison with NaN is false.
FLt(x, y) ==
    /\ ~IsMissing(x)
    /\ ~IsMissing(y)
    /\ x.num * y.den < y.num * x.den

FGt(x, y) == FLt(y, x)

\* ---- dated series of the cleaning pipeline ----
\* datetime tells whether the index is a DatetimeIndex already or holds
\* date strings that pd.to_datetime has to convert.
DatedSeries(index, vals, datetime) ==
    [index |-> index, values |-> vals, datetime |-> datetime]

NoSeries == DatedSeries(<<>>, <<>>, TRUE)

RawValues == {NaN} \cup {Float(p, 1) : p \in 0..MaxRawPrice}
RawSeqs == UNION {[1..len -> RawValues] : len \in 0..MaxRawLen}

\* The multipliers k tried: -1, 0, 1/2, 1 and the default 3.
Multipliers == {Float(0 - 1, 1), Float(0, 1), Float(1, 2), Float(1, 1),
                Float(3, 1)}

VARIABLES
    series,              \* the caller's raw series: [index, values, datetime]
    close,               \* the caller's series: [index, values]
    pc,                  \* "idle" or the loop being run
    window,              \* compute_sma's argument
    i,                   \* loop index (0-based, as in the source)
    out,                 \* compute_sma's output array
    running_sum,         \* compute_sma's running sum
    longest_up_streak,
    longest_down_streak,
    current_streak,
    current_direction,
    mask,                \* compute_streak's direction mask
    daily_returns,       \* compute_sdr's list
    total_profit,        \* compute_max_profit's accumulator
    df,                  \* the caller's price table (Open, High, Low, Close)
    rows,                \* the caller's list of row dicts (Ticker, Date, Close)
    ret                  \* what the last call returned (or raised)

vars == <<series, close, pc, window, i, out, running_sum, longest_up_streak,
          longest_down_streak, current_streak, current_direction, mask,
          daily_returns, total_profit, df, rows, ret>>

app_vars == <<df, rows>>

sma_vars == <<window, out, running_sum>>
streak_vars == <<longest_up_streak, longest_down_streak, current_streak,
                 current_direction, mask>>
sdr_vars == <<daily_returns>>
profit_vars == <<total_profit>>

values == close.values
n == Len(close.values)

\* A price table: named columns of values over one shared date index.
Table(columns, index, datetime, data) ==
    [columns |-> columns, index |-> index, datetime |-> datetime,
     data |-> data]

NoTable == Table({}, <<>>, TRUE, [c \in {} |-> <<>>])

\* The column of a table as a dated series.
Column(t, c) == DatedSeries(t.index, t.data[c], t.datetime)

NoFilters ==
    [selected_key |-> "", data_intervals |-> <<>>, default |-> "",
     selected_interval |-> "", branch |-> 0]

\* What make_price_metrics returned: nothing yet, None, or the dict.
NoMetrics ==
    [returned |-> "none", sdr |-> <<>>, latest_price |-> NaN,
     latest_return |-> NaN, previous_close |-> NaN,
     absolute_change |-> NaN, latest_open |-> NaN,
     low |-> NaN, high |-> NaN]

NoResult ==
    [fn |-> "none", status |-> "none", window |-> 0,
     series |-> EmptySeries, mask |-> EmptySeries,
     up |-> 0, down |-> 0, profit |-> 0,
     arg |-> NoSeries, argfrom |-> "none", k |-> NaN,
     cleaned |-> NoSeries, flags |-> NoSeries, has |-> FALSE,
     steps |-> <<>>, replace_with_nan |-> FALSE,
     table |-> NoTable, missing |-> <<>>, argtable |-> NoTable,
     ticker |-> "", trades |-> <<>>, summary |-> <<>>,
     filters |-> NoFilters, metrics |-> NoMetrics]

DaysPerWeek == 7

\* Dates are day numbers; a series holds consecutive days from its start.
DateIndex(start, len) == [k \in 1..len |-> start + k - 1]

\* No call is running and none has returned.
NoCall ==
    /\ pc = "idle"
    /\ window = 0
    /\ i = 0
    /\ out = <<>>
    /\ running_sum = 0
    /\ longest_up_streak = 0
    /\ longest_down_streak = 0
    /\ current_streak = 0
    /\ current_direction = 0
    /\ mask = <<>>
    /\ daily_returns = <<>>
    /\ total_profit = 0
    /\ ret = NoResult

\* The caller holds neither a price table nor a list of rows.
NoApp ==
    /\ df = NoTable
    /\ rows = <<>>

\* The analytics: the caller holds a closing-price series.
Init ==
    /\ \E v \in PriceSeqs \cup ExampleSeqs, start \in 0..MaxStart :
          close = [index |-> DateIndex(start, Len(v)), values |-> v]
    /\ series = NoSeries
    /\ NoApp
    /\ NoCall

\* The cleaning pipeline: the caller holds a raw dated series.
CleanInit ==
    /\ close = EmptySeries
    /\ \E v \in RawSeqs, start \in 0..(DaysPerWeek - 1), datetime \in BOOLEAN :
          series = DatedSeries(DateIndex(start, Len(v)), v, datetime)
    /\ NoApp
    /\ NoCall

\* ---------------------------------------------------------------------
\* compute_sma
\* ---------------------------------------------------------------------

\* "if window <= 0 or n == 0": the early return with the all-NaN array.
SmaEdgeCase(w, len) == w <= 0 \/ len = 0

\* (variant: no price ever leaves the running sum)
SmaSlidesOutNever(idx, w) == FALSE

\* (variant: the slid-out price is removed one iteration late)
SmaSlidesOutLate(idx, w) == idx > w

\* "if i >= window": a price has slid out of the window.
SmaSlidesOut(idx, w) == idx >= w

\* (variant: an average is written for every index, full window or not)
SmaDefinedAlways(idx, w) == idx >= 0

\* "if i >= window - 1": enough data points for an average.
SmaDefined(idx, w) == idx >= w - 1

SmaResult(w, data) ==
    [NoResult EXCEPT !.fn = "compute_sma",
                     !.status = PdSeriesStatus(data, close.index),
                     !.window = w,
                     !.series = PdSeries(data, close.index)]

compute_sma_call ==
    /\ pc = "idle"
    /\ \E w \in Windows :
          IF SmaEdgeCase(w, n)
          THEN /\ ret' = SmaResult(w, NpFullNaN(n))
               /\ UNCHANGED <<pc, sma_vars>>
          ELSE /\ pc' = "sma"
               /\ window' = w
               /\ out' = NpFullNaN(n)
               /\ running_sum' = 0
               /\ ret' = NoResult
    /\ i' = 0
    /\ UNCHANGED <<app_vars, series, close, streak_vars, sdr_vars, profit_vars>>

compute_sma_loop ==
    /\ pc = "sma"
    /\ i < n
    /\ LET added == running_sum + values[i + 1]
           slid == IF SmaSlidesOut(i, window)
                   THEN added - values[i - window + 1]
                   ELSE added
       IN /\ running_sum' = slid
          /\ out' = IF SmaDefined(i, window)
                    THEN [out EXCEPT ![i + 1] = Float(slid, window)]
                    ELSE out
    /\ i' = i + 1
    /\ UNCHANGED <<app_vars, series, close, pc, window, streak_vars, sdr_vars, profit_vars, ret>>

compute_sma_return ==
    /\ pc = "sma"
    /\ i = n
    /\ ret' = SmaResult(window, out)
    /\ pc' = "idle"
    /\ i' = 0
    /\ window' = 0
    /\ out' = <<>>
    /\ running_sum' = 0
    /\ UNCHANGED <<app_vars, series, close, streak_vars, sdr_vars, profit_vars>>

\* ---------------------------------------------------------------------
\* compute_streak
\* ---------------------------------------------------------------------

\* (variant: a non-strict comparison, an equal price counts as up)
NewDirectionNonStrict(previous_price, current_price) ==
    IF current_price >= previous_price THEN 1
    ELSE IF current_price < previous_price THEN 0 - 1
    ELSE 0

\* "Determine movement direction": 1 up, -1 down, 0 flat.
NewDirection(previous_price, current_price) ==
    IF current_price > previous_price THEN 1
    ELSE IF current_price < previous_price THEN 0 - 1
    ELSE 0

\* The counters of the loop, as one record.
StreakState(up, down, cur, dir) ==
    [longest_up_streak |-> up, longest_down_streak |-> down,
     current_streak |-> cur, current_direction |-> dir]

\* "update longest streaks": commit the current run to its tally.
CommitStreak(s) ==
    IF s.current_direction = 1 /\ s.current_streak > s.longest_up_streak
    THEN [s EXCEPT !.longest_up_streak = s.current_streak]
    ELSE IF s.current_direction = 0 - 1
            /\ s.current_streak > s.longest_down_streak
    THEN [s EXCEPT !.longest_down_streak = s.current_streak]
    ELSE s

\* "if new_direction == current_direction and new_direction != 0"
StreakExtends(s, new_direction) ==
    new_direction = s.current_direction /\ new_direction # 0

\* (variant: an iteration that extends the streak commits it at once)
UpdateStreakCommitEarly(s, new_direction) ==
    IF StreakExtends(s, new_direction)
    THEN CommitStreak([s EXCEPT !.current_streak = s.current_streak + 1])
    ELSE [CommitStreak(s) EXCEPT
             !.current_direction = new_direction,
             !.current_streak = IF new_direction # 0 THEN 1 ELSE 0]

\* (variant: a flat day is skipped and leaves the running streak alone)
UpdateStreakSkipFlat(s, new_direction) ==
    IF new_direction = 0 THEN s
    ELSE IF StreakExtends(s, new_direction)
    THEN [s EXCEPT !.current_streak = s.current_streak + 1]
    ELSE [CommitStreak(s) EXCEPT
             !.current_direction = new_direction,
             !.current_streak = 1]

\* "Update streaks efficiently": one iteration's effect on the counters.
UpdateStreak(s, new_direction) ==
    IF StreakExtends(s, new_direction)
    THEN [s EXCEPT !.current_streak = s.current_streak + 1]
    ELSE [CommitStreak(s) EXCEPT
             !.current_direction = new_direction,
             !.current_streak = IF new_direction # 0 THEN 1 ELSE 0]

\* (variant: the run still open when the loop ends is never committed)
FinalStreakCheckOmitted(s) == s

\* "Final streak check (include last run)"
FinalStreakCheck(s) == CommitStreak(s)

StreakResult(up, down, m) ==
    [NoResult EXCEPT !.fn = "compute_streak",
                     !.status = PdSeriesStatus(m, close.index),
                     !.mask = PdSeries(m, close.index),
                     !.up = up,
                     !.down = down]

\* "if n <= 1": fewer than two prices give no direction.
StreakEdgeCase(len) == len <= 1

\* (variant: the early return carries no mask entries)
StreakEdgeMaskEmpty(len) == <<>>

\* The mask of the early return: np.zeros(n, dtype=int).
StreakEdgeMask(len) == NpZeros(len)

compute_streak_call ==
    /\ pc = "idle"
    /\ IF StreakEdgeCase(n)
       THEN /\ ret' = StreakResult(0, 0, StreakEdgeMask(n))
            /\ UNCHANGED <<pc, i, streak_vars>>
       ELSE /\ pc' = "streak"
            /\ longest_up_streak' = 0
            /\ longest_down_streak' = 0
            /\ current_streak' = 0
            /\ current_direction' = 0
            /\ mask' = NpZeros(n)
            /\ i' = 1
            /\ ret' = NoResult
    /\ UNCHANGED <<app_vars, series, close, sma_vars, sdr_vars, profit_vars>>

compute_streak_loop ==
    /\ pc = "streak"
    /\ i < n
    /\ LET new_direction == NewDirection(values[i], values[i + 1])
           s == UpdateStreak(StreakState(longest_up_streak,
                                         longest_down_streak,
                                         current_streak,
                                         current_direction),
                             new_direction)
       IN /\ mask' = [mask EXCEPT ![i + 1] = new_direction]
          /\ longest_up_streak' = s.longest_up_streak
          /\ longest_down_streak' = s.longest_down_streak
          /\ current_streak' = s.current_streak
          /\ current_direction' = s.current_direction
    /\ i' = i + 1
    /\ UNCHANGED <<app_vars, series, close, pc, sma_vars, sdr_vars, profit_vars, ret>>

compute_streak_return ==
    /\ pc = "streak"
    /\ i = n
    /\ LET s == FinalStreakCheck(StreakState(longest_up_streak,
                                             longest_down_streak,
                                             current_streak,
                                             current_direction))
       IN ret' = StreakResult(s.longest_up_streak, s.longest_down_streak,
                              mask)
    /\ pc' = "idle"
    /\ i' = 0
    /\ longest_up_streak' = 0
    /\ longest_down_streak' = 0
    /\ current_streak' = 0
    /\ current_direction' = 0
    /\ mask' = <<>>
    /\ UNCHANGED <<app_vars, series, close, sma_vars, sdr_vars, profit_vars>>

\* ---------------------------------------------------------------------
\* compute_sdr
\* ---------------------------------------------------------------------

\* (variant: no guard against a zero previous price)
DailyReturnUnguarded(previous_price, current_price) ==
    NpTrueDiv(current_price - previous_price, previous_price)

\* (variant: the change is divided by the current price)
DailyReturnOverCurrent(previous_price, current_price) ==
    IF previous_price # 0
    THEN NpTrueDiv(current_price - previous_price, current_price)
    ELSE PyNone

\* One entry of the list: the return when the previous price is not zero,
\* None otherwise.
DailyReturn(previous_price, current_price) ==
    IF previous_price # 0
    THEN NpTrueDiv(current_price - previous_price, previous_price)
    ELSE PyNone

SdrResult(data) ==
    [NoResult EXCEPT !.fn = "compute_sdr",
                     !.status = PdSeriesStatus(data, close.index),
                     !.series = PdSeries(data, close.index)]

\* daily_returns starts as [None] whatever the length of the input.
compute_sdr_call ==
    /\ pc = "idle"
    /\ pc' = "sdr"
    /\ daily_returns' = <<PyNone>>
    /\ i' = 1
    /\ ret' = NoResult
    /\ UNCHANGED <<app_vars, series, close, sma_vars, streak_vars, profit_vars>>

compute_sdr_loop ==
    /\ pc = "sdr"
    /\ i < n
    /\ daily_returns' =
          Append(daily_returns, DailyReturn(values[i], values[i + 1]))
    /\ i' = i + 1
    /\ UNCHANGED <<app_vars, series, close, pc, sma_vars, streak_vars, profit_vars, ret>>

compute_sdr_return ==
    /\ pc = "sdr"
    /\ i >= n
    /\ ret' = SdrResult(daily_returns)
    /\ pc' = "idle"
    /\ i' = 0
    /\ daily_returns' = <<>>
    /\ UNCHANGED <<app_vars, series, close, sma_vars, streak_vars, profit_vars>>

\* ---------------------------------------------------------------------
\* compute_max_profit
\* ---------------------------------------------------------------------

\* (variant: every difference is added, falls included)
ProfitFromTransactionAnyMove(current_price, next_price) ==
    next_price - current_price

\* (variant: the size of every move is added, rise or fall)
ProfitFromTransactionSigned(current_price, next_price) ==
    IF next_price > current_price THEN next_price - current_price
    ELSE next_price - current_price

\* (variant: the loop stops one pair early)
MaxProfitInLoopShort(idx, len) == idx < len - 2

\* "for i in range(n - 1)"
MaxProfitInLoop(idx, len) == idx < len - 1

\* "if next_price > current_price: total_profit += next - current"
ProfitFromTransaction(current_price, next_price) ==
    IF next_price > current_price THEN next_price - current_price ELSE 0

ProfitResult(p) ==
    [NoResult EXCEPT !.fn = "compute_max_profit",
                     !.status = "ok",
                     !.profit = p]

compute_max_profit_call ==
    /\ pc = "idle"
    /\ pc' = "profit"
    /\ total_profit' = 0
    /\ i' = 0
    /\ ret' = NoResult
    /\ UNCHANGED <<app_vars, series, close, sma_vars, streak_vars, sdr_vars>>

compute_max_profit_loop ==
    /\ pc = "profit"
    /\ MaxProfitInLoop(i, n)
    /\ total_profit' =
          total_profit + ProfitFromTransaction(values[i + 1], values[i + 2])
    /\ i' = i + 1
    /\ UNCHANGED <<app_vars, series, close, pc, sma_vars, streak_vars, sdr_vars, ret>>

compute_max_profit_return ==
    /\ pc = "profit"
    /\ ~MaxProfitInLoop(i, n)
    /\ ret' = ProfitResult(total_profit)
    /\ pc' = "idle"
    /\ i' = 0
    /\ total_profit' = 0
    /\ UNCHANGED <<app_vars, series, close, sma_vars, streak_vars, sdr_vars>>

\* ---------------------------------------------------------------------
\* Cleaning pipeline (src/services/data.py)
\* ---------------------------------------------------------------------

analytics_vars == <<close, pc, i, sma_vars, streak_vars, sdr_vars,
                    profit_vars>>

\* pd.isna(series).any()
HasMissing(s) == \E k \in 1..Len(s.values) : IsMissing(s.values[k])

Reverse(v) == [k \in 1..Len(v) |-> v[Len(v) + 1 - k]]

\* Series.ffill(): one pass that carries the last value seen forward.
RECURSIVE FFillPass(_, _, _, _)
FFillPass(v, k, last, acc) ==
    IF k > Len(v) THEN acc
    ELSE IF IsMissing(v[k])
    THEN FFillPass(v, k + 1, last, Append(acc, last))
    ELSE FFillPass(v, k + 1, v[k], Append(acc, v[k]))

FFill(v) == FFillPass(v, 1, NaN, <<>>)

\* Series.bfill(): the same pass from the end.
BFill(v) == Reverse(FFill(Reverse(v)))

\* (variant: back-fill first, then forward-fill)
FillGapsBackFirst(s) == [s EXCEPT !.values = FFill(BFill(s.values))]

\* (variant: forward-fill only, a leading gap stays)
FillGapsForwardOnly(s) == [s EXCEPT !.values = FFill(s.values)]

\* series.ffill().bfill()
FillGaps(s) == [s EXCEPT !.values = BFill(FFill(s.values))]

\* pandas' dayofweek: 0 = Monday ... 6 = Sunday.
DayOfWeek(day) == day % DaysPerWeek

\* (variant: Saturday passes the filter)
IsTradingDayLoose(day) == DayOfWeek(day) < 6

\* (variant: Friday fails the filter)
IsTradingDayStrict(day) == DayOfWeek(day) < 4

\* "s.index.dayofweek < 5"
IsTradingDay(day) == DayOfWeek(day) < 5

\* (variant: the values are filtered but the dates are taken in order from
\* the start of the input, so dates and values no longer line up)
RECURSIVE KeepRowsMisaligned(_, _, _)
KeepRowsMisaligned(s, k, acc) ==
    IF k > Len(s.index) THEN acc
    ELSE IF IsTradingDay(s.index[k])
    THEN KeepRowsMisaligned(s, k + 1,
             [acc EXCEPT !.index = Append(acc.index,
                                          s.index[Len(acc.index) + 1]),
                         !.values = Append(acc.values, s.values[k])])
    ELSE KeepRowsMisaligned(s, k + 1, acc)

\* s[mask]: the rows whose index passes, in order.
RECURSIVE KeepRows(_, _, _)
KeepRows(s, k, acc) ==
    IF k > Len(s.index) THEN acc
    ELSE IF IsTradingDay(s.index[k])
    THEN KeepRows(s, k + 1,
                  [acc EXCEPT !.index = Append(acc.index, s.index[k]),
                              !.values = Append(acc.values, s.values[k])])
    ELSE KeepRows(s, k + 1, acc)

\* pd.to_datetime on an index that is not a DatetimeIndex: the same dates,
\* now as timestamps.
ToDatetime(s) == [s EXCEPT !.datetime = TRUE]

\* s = series.copy(); convert the index if needed; keep dayofweek < 5.
RemoveNonTradingDays(s) ==
    LET c == IF s.datetime THEN s ELSE ToDatetime(s)
    IN KeepRows(c, 1, DatedSeries(<<>>, <<>>, c.datetime))

\* (variant: s = series, the index conversion reaches the caller's series)
CallerAfterRemoveNoCopy(s) == IF s.datetime THEN s ELSE ToDatetime(s)

\* "s = series.copy()": the conversion and the filter work on the copy, the
\* series the caller passed in is as it was.
CallerAfterRemove(s) == s

\* (variant: the weekday filter runs before the gaps are filled)
CleanDataFilterFirst(s) == FillGaps(RemoveNonTradingDays(s))

\* series = fill_gaps(series); cleaned = remove_non_trading_days(series)
CleanData(s) == RemoveNonTradingDays(FillGaps(s))

\* The functions clean_data calls, in order.
CleanDataSteps(s) == <<"fill_gaps", "remove_non_trading_days">>

\* A cleaning function is handed the caller's series or the series the
\* previous call returned on the caller's series.
CallerArg == [from |-> "caller", s |-> series]

CleaningArgs ==
    {CallerArg} \cup
    (IF ret.fn \in {"fill_gaps", "remove_non_trading_days", "clean_data"}
        /\ ret.argfrom = "caller"
     THEN {[from |-> ret.fn, s |-> ret.cleaned]}
     ELSE {})

CleaningResult(f, a, result, steps) ==
    [NoResult EXCEPT !.fn = f,
                     !.status = "ok",
                     !.arg = a.s,
                     !.argfrom = a.from,
                     !.cleaned = result,
                     !.steps = steps]

has_missing ==
    /\ pc = "idle"
    /\ \E a \in CleaningArgs :
          ret' = [CleaningResult("has_missing", a, NoSeries, <<>>)
                     EXCEPT !.has = HasMissing(a.s)]
    /\ UNCHANGED <<app_vars, series, analytics_vars>>

fill_gaps ==
    /\ pc = "idle"
    /\ \E a \in CleaningArgs :
          ret' = CleaningResult("fill_gaps", a, FillGaps(a.s),
                                <<"ffill", "bfill">>)
    /\ UNCHANGED <<app_vars, series, analytics_vars>>

remove_non_trading_days ==
    /\ pc = "idle"
    /\ \E a \in CleaningArgs :
          /\ ret' = CleaningResult("remove_non_trading_days", a,
                                   RemoveNonTradingDays(a.s), <<>>)
          /\ series' = IF a.from = "caller"
                       THEN CallerAfterRemove(series)
                       ELSE series
    /\ UNCHANGED <<app_vars, analytics_vars>>

clean_data ==
    /\ pc = "idle"
    /\ \E a \in CleaningArgs :
          ret' = CleaningResult("clean_data", a, CleanData(a.s),
                                CleanDataSteps(a.s))
    /\ UNCHANGED <<app_vars, series, analytics_vars>>

\* ---- outlier_mask_iqr ----

\* The values that are present, in ascending order (insertion sort).
RECURSIVE InsertSorted(_, _)
InsertSorted(x, sorted) ==
    IF sorted = <<>> THEN <<x>>
    ELSE IF FLt(Head(sorted), x)
    THEN <<Head(sorted)>> \o InsertSorted(x, Tail(sorted))
    ELSE <<x>> \o sorted

RECURSIVE SortPresent(_, _, _)
SortPresent(v, k, sorted) ==
    IF k > Len(v) THEN sorted
    ELSE IF IsMissing(v[k]) THEN SortPresent(v, k + 1, sorted)
    ELSE SortPresent(v, k + 1, InsertSorted(v[k], sorted))

\* Series.quantile(qnum / qden): missing values are skipped, the position
\* (m - 1) * q is interpolated linearly between its two neighbours, and a
\* series without any value gives NaN.
Quantile(v, qnum, qden) ==
    LET sorted == SortPresent(v, 1, <<>>)
        m == Len(sorted)
        h == (m - 1) * qnum
        lo == h \div qden
        frac == h % qden
    IN IF m = 0 THEN NaN
       ELSE IF frac = 0 THEN sorted[lo + 1]
       ELSE FAdd(sorted[lo + 1],
                 FMul(Float(frac, qden),
                      FSub(sorted[lo + 2], sorted[lo + 1])))

\* (variant: the fences lie k away from the quartiles, whatever the spread)
IqrBoundsNoSpread(s, k) ==
    LET q1 == Quantile(s.values, 1, 4)
        q3 == Quantile(s.values, 3, 4)
        iqr == FSub(q3, q1)
    IN [q1 |-> q1, q3 |-> q3, iqr |-> iqr,
        lower |-> FSub(q1, k),
        upper |-> FAdd(q3, k)]

\* q1, q3, iqr, lower, upper as the source computes them.
IqrBounds(s, k) ==
    LET q1 == Quantile(s.values, 1, 4)
        q3 == Quantile(s.values, 3, 4)
        iqr == FSub(q3, q1)
    IN [q1 |-> q1, q3 |-> q3, iqr |-> iqr,
        lower |-> FSub(q1, FMul(k, iqr)),
        upper |-> FAdd(q3, FMul(k, iqr))]

\* (variant: a value on a fence is flagged too)
IsFlaggedInclusive(x, b) ==
    \/ FLt(x, b.lower) \/ FGt(x, b.upper)
    \/ (~IsMissing(x) /\ ~IsMissing(b.lower)
          /\ (x.num * b.lower.den = b.lower.num * x.den
                \/ x.num * b.upper.den = b.upper.num * x.den))

\* "(series < lower) | (series > upper)"
IsFlagged(x, b) == FLt(x, b.lower) \/ FGt(x, b.upper)

\* The boolean mask, reindexed to the index it already has.
OutlierMaskIqr(s, k) ==
    LET b == IqrBounds(s, k)
    IN [s EXCEPT !.values =
           [j \in 1..Len(s.values) |-> IsFlagged(s.values[j], b)]]

outlier_mask_iqr ==
    /\ pc = "idle"
    /\ \E a \in CleaningArgs, k \in Multipliers :
          ret' = [CleaningResult("outlier_mask_iqr", a, NoSeries, <<>>)
                     EXCEPT !.k = k,
                            !.flags = OutlierMaskIqr(a.s, k)]
    /\ UNCHANGED <<app_vars, series, analytics_vars>>

\* ---- clean_outliers_iqr ----

\* (variant: Series.where, the flagged entries are the ones kept)
MaskWhereKept(s, cond) ==
    [s EXCEPT !.values =
        [j \in 1..Len(s.values) |->
            IF cond[j] THEN s.values[j] ELSE NaN]]

\* Series.mask(cond): an entry where cond holds becomes missing.
MaskWhere(s, cond) ==
    [s EXCEPT !.values =
        [j \in 1..Len(s.values) |->
            IF cond[j] THEN NaN ELSE s.values[j]]]

FMin(x, y) == IF FLt(y, x) THEN y ELSE x
FMax(x, y) == IF FLt(x, y) THEN y ELSE x

\* (variant: only the lower threshold is applied)
ClipValueLowerOnly(x, lo, hi) ==
    IF FLt(x, lo) THEN lo ELSE x

\* One entry of Series.clip: below lo it becomes lo, above hi it becomes
\* hi; a missing entry fails both comparisons and stays missing, and a
\* missing threshold is no threshold.
ClipValue(x, lo, hi) ==
    IF FLt(x, lo) THEN lo
    ELSE IF FGt(x, hi) THEN hi
    ELSE x

\* Series.clip(lower=lower, upper=upper) with scalar thresholds: pandas
\* swaps two thresholds given in the wrong order.
Clip(s, lower, upper) ==
    LET swap == ~IsMissing(lower) /\ ~IsMissing(upper)
        lo == IF swap THEN FMin(lower, upper) ELSE lower
        hi == IF swap THEN FMax(lower, upper) ELSE upper
    IN [s EXCEPT !.values =
           [j \in 1..Len(s.values) |-> ClipValue(s.values[j], lo, hi)]]

\* q1, q3, iqr, lower, upper, then mask or clip.
CleanOutliersIqr(s, replace_with_nan, k) ==
    LET b == IqrBounds(s, k)
    IN IF replace_with_nan
       THEN MaskWhere(s, [j \in 1..Len(s.values) |->
                             IsFlagged(s.values[j], b)])
       ELSE Clip(s, b.lower, b.upper)

clean_outliers_iqr ==
    /\ pc = "idle"
    /\ \E replace_with_nan \in BOOLEAN, k \in Multipliers :
          ret' = [CleaningResult("clean_outliers_iqr", CallerArg,
                                 CleanOutliersIqr(series, replace_with_nan, k),
                                 <<>>)
                     EXCEPT !.k = k,
                            !.replace_with_nan = replace_with_nan]
    /\ UNCHANGED <<app_vars, series, analytics_vars>>

Next ==
    \/ compute_sma_call
    \/ compute_sma_loop
    \/ compute_sma_return
    \/ compute_streak_call
    \/ compute_streak_loop
    \/ compute_streak_return
    \/ compute_sdr_call
    \/ compute_sdr_loop
    \/ compute_sdr_return
    \/ compute_max_profit_call
    \/ compute_max_profit_loop
    \/ compute_max_profit_return

Spec == Init /\ [][Next]_vars

CleanNext ==
    \/ has_missing
    \/ fill_gaps
    \/ remove_non_trading_days
    \/ clean_data

CleanSpec == CleanInit /\ [][CleanNext]_vars

\* The outlier functions look at the values only: the caller holds a raw
\* series over a DatetimeIndex that starts on a Monday.
OutlierInit ==
    /\ close = EmptySeries
    /\ \E v \in RawSeqs :
          series = DatedSeries(DateIndex(0, Len(v)), v, TRUE)
    /\ NoApp
    /\ NoCall

OutlierNext ==
    \/ has_missing
    \/ outlier_mask_iqr
    \/ clean_outliers_iqr

OutlierSpec == OutlierInit /\ [][OutlierNext]_vars

\* ---- the pipeline and the analytics together ----

\* A gap-free series of whole-number prices as the analytics read it.
PricesOf(s) ==
    [index |-> s.index,
     values |-> [j \in 1..Len(s.values) |-> s.values[j].num]]

\* The caller holds a raw series whose index still holds date strings and
\* starts on a Thursday or a Friday, and the closing prices cleaned from
\* it; a raw series without any value, which cleaning cannot make
\* gap-free, is left out.
FrameInit ==
    /\ \E v \in RawSeqs,
          start \in (DaysPerWeek - 4)..(DaysPerWeek - 3) :
          /\ v = <<>> \/ \E j \in 1..Len(v) : ~IsMissing(v[j])
          /\ series = DatedSeries(DateIndex(start, Len(v)), v, FALSE)
          /\ close = PricesOf(CleanData(series))
    /\ NoApp
    /\ NoCall

FrameNext ==
    \/ has_missing
    \/ fill_gaps
    \/ remove_non_trading_days
    \/ clean_data
    \/ outlier_mask_iqr
    \/ clean_outliers_iqr
    \/ compute_sma_call
    \/ compute_sma_loop
    \/ compute_sma_return
    \/ compute_streak_call
    \/ compute_streak_loop
    \/ compute_streak_return
    \/ compute_sdr_call
    \/ compute_sdr_loop
    \/ compute_sdr_return
    \/ compute_max_profit_call
    \/ compute_max_profit_loop
    \/ compute_max_profit_return

FrameSpec == FrameInit /\ [][FrameNext]_vars

\* ---------------------------------------------------------------------
\* UI adapters and filters (src/ui/adapters.py, src/ui/filters.py)
\* ---------------------------------------------------------------------

OhlcColumns == <<"Open", "High", "Low", "Close">>

OhlcSet == {OhlcColumns[j] : j \in 1..Len(OhlcColumns)}

\* Close columns of 0..MaxRows rows, missing values allowed.
TableSeqs == UNION {[1..len -> RawValues] : len \in 0..MaxRows}

\* Every column but Close: one above the close, missing where it is.
OtherColumn(v) ==
    [j \in 1..Len(v) |->
        IF IsMissing(v[j]) THEN NaN ELSE Float(v[j].num + 1, 1)]

\* A downloaded table: Volume and some of the OHLC columns over a
\* DatetimeIndex of consecutive days.
TableOf(columns, start, v) ==
    Table(columns, DateIndex(start, Len(v)), TRUE,
          [c \in columns |-> IF c = "Close" THEN v ELSE OtherColumn(v)])

\* The UI: the caller holds a table that starts on a Friday or a Saturday.
UiInit ==
    /\ \E some \in SUBSET OhlcSet, v \in TableSeqs,
          start \in (DaysPerWeek - 3)..(DaysPerWeek - 2) :
          df = TableOf(some \cup {"Volume"}, start, v)
    /\ rows = <<>>
    /\ series = NoSeries
    /\ close = EmptySeries
    /\ NoCall

\* ---- clean_ohlc ----

\* "missing = [c for c in cols if c not in df.columns]"
MissingColumns(t) ==
    LET Absent(c) == c \notin t.columns
    IN SelectSeq(OhlcColumns, Absent)

\* (variant: the columns that are there are cleaned before the error)
CleanedColumnsLateGuard(t) ==
    LET There(c) == c \in t.columns
    IN SelectSeq(OhlcColumns, There)

\* The columns clean_data is applied to: none when the guard raises,
\* which it does before the apply.
CleanedColumns(t) ==
    IF MissingColumns(t) # <<>> THEN <<>> ELSE OhlcColumns

\* df[cols].apply(clean_data, axis=0): every column cleaned on its own,
\* all of them over the index the weekday filter leaves.
CleanOhlcTable(t) ==
    LET first == CleanData(Column(t, OhlcColumns[1]))
    IN Table(OhlcSet, first.index, first.datetime,
             [c \in OhlcSet |-> CleanData(Column(t, c)).values])

CleanOhlc(t) ==
    LET base == [NoResult EXCEPT !.fn = "clean_ohlc",
                                 !.argtable = t,
                                 !.steps = CleanedColumns(t)]
    IN IF MissingColumns(t) # <<>>
       THEN [base EXCEPT !.status = "KeyError",
                         !.missing = MissingColumns(t)]
       ELSE [base EXCEPT !.status = "ok",
                         !.table = CleanOhlcTable(t)]

clean_ohlc ==
    /\ pc = "idle"
    /\ ret' = CleanOhlc(df)
    /\ UNCHANGED <<app_vars, series, analytics_vars>>

\* ---- make_price_metrics ----

\* The table handed in: the caller's, or the one clean_ohlc just returned.
TableArgs ==
    {df} \cup
    (IF ret.fn = "clean_ohlc" /\ ret.status = "ok" THEN {ret.table} ELSE {})

\* ticker_info.price
LatestPrices == {Float(p, 1) : p \in 1..MaxRawPrice}

\* compute_sdr on a column that may hold missing values: None first, then
\* the return of each step, NaN as soon as one of its prices is missing.
SdrOfColumn(v) ==
    [j \in 1..Len(v) |->
        IF j = 1 THEN PyNone
        ELSE IF IsMissing(v[j - 1]) \/ IsMissing(v[j]) THEN NaN
        ELSE DailyReturn(v[j - 1].num, v[j].num)]

\* "if close.isna().any() and len(close) == 1"
MetricsGuard(v) ==
    (\E j \in 1..Len(v) : IsMissing(v[j])) /\ Len(v) = 1

\* The else branch: compute_sdr raises on an empty column, close.iloc[-2]
\* raises on a column of one row.
MetricsStatus(v) ==
    IF Len(v) = 0 THEN "ValueError"
    ELSE IF Len(v) < 2 THEN "IndexError"
    ELSE "ok"

MetricsDict(t, price) ==
    LET close_col == t.data["Close"]
        open_col == t.data["Close"]
        high_col == t.data["Close"]
        low_col == t.data["Open"]
        len == Len(close_col)
        sdr == SdrOfColumn(close_col)
    IN [returned |-> "dict",
        sdr |-> sdr,
        latest_price |-> price,
        latest_return |-> sdr[len],
        previous_close |-> close_col[len - 1],
        absolute_change |-> FSub(price, close_col[len - 1]),
        latest_open |-> open_col[len],
        low |-> low_col[len],
        high |-> high_col[len]]

MakePriceMetrics(t, price) ==
    LET base == [NoResult EXCEPT !.fn = "make_price_metrics",
                                 !.argtable = t]
        needed == <<"Close", "Open">>
        Absent(c) == c \notin t.columns
    IN IF SelectSeq(needed, Absent) # <<>>
       THEN [base EXCEPT !.status = "KeyError",
                         !.missing = SelectSeq(needed, Absent)]
       ELSE IF MetricsGuard(t.data["Close"])
       THEN [base EXCEPT !.status = "ok",
                         !.metrics = [NoMetrics EXCEPT !.returned = "None"]]
       ELSE IF MetricsStatus(t.data["Close"]) # "ok"
       THEN [base EXCEPT !.status = MetricsStatus(t.data["Close"])]
       ELSE [base EXCEPT !.status = "ok",
                         !.metrics = MetricsDict(t, price)]

make_price_metrics ==
    /\ pc = "idle"
    /\ \E t \in TableArgs, price \in LatestPrices :
          ret' = MakePriceMetrics(t, price)
    /\ UNCHANGED <<app_vars, series, analytics_vars>>

\* ---- display_filters ----

HorizonKeys ==
    <<"1 Day", "5 Day", "1 Month", "6 Month", "1 Year", "3 Year", "5 Year">>

\* horizon_mapping
HorizonMapping(key) ==
    CASE key = "1 Day" -> [n |-> 1, unit |-> "days"]
      [] key = "5 Day" -> [n |-> 5, unit |-> "days"]
      [] key = "1 Month" -> [n |-> 1, unit |-> "months"]
      [] key = "6 Month" -> [n |-> 6, unit |-> "months"]
      [] key = "1 Year" -> [n |-> 1, unit |-> "years"]
      [] key = "3 Year" -> [n |-> 3, unit |-> "years"]
      [] key = "5 Year" -> [n |-> 5, unit |-> "years"]

\* (variant: the five-day test comes first)
IntervalBranchFiveDayFirst(h) ==
    IF h.unit = "days" /\ h.n = 5 THEN 2
    ELSE IF h.unit = "days" THEN 1
    ELSE IF h.unit = "months" /\ h.n = 1 THEN 3
    ELSE 4

\* The branch of the if / elif chain that is taken, in source order.
IntervalBranch(h) ==
    IF h.unit = "days" THEN 1
    ELSE IF h.unit = "days" /\ h.n = 5 THEN 2
    ELSE IF h.unit = "months" /\ h.n = 1 THEN 3
    ELSE 4

\* data_intervals as each branch assigns it.
DataIntervals(branch) ==
    CASE branch = 1 -> <<"1m", "2m", "5m", "15m", "30m", "1h">>
      [] branch = 2 -> <<"1m", "2m", "5m", "15m", "30m", "1h", "1d">>
      [] branch = 3 -> <<"1d", "5d", "1wk", "1mo">>
      [] branch = 4 -> <<"1d", "5d", "1wk", "1mo", "3mo">>

\* The user picks a horizon and one of the intervals offered.
display_filters ==
    /\ pc = "idle"
    /\ \E j \in 1..Len(HorizonKeys) :
          LET selected_key == HorizonKeys[j]
              branch == IntervalBranch(HorizonMapping(selected_key))
              data_intervals == DataIntervals(branch)
          IN \E pick \in 1..Len(data_intervals) :
                ret' = [NoResult EXCEPT
                           !.fn = "display_filters",
                           !.status = "ok",
                           !.filters =
                              [selected_key |-> selected_key,
                               data_intervals |-> data_intervals,
                               default |-> data_intervals[1],
                               selected_interval |-> data_intervals[pick],
                               branch |-> branch]]
    /\ UNCHANGED <<app_vars, series, analytics_vars>>

UiNext ==
    \/ clean_ohlc
    \/ make_price_metrics
    \/ display_filters

UiSpec == UiInit /\ [][UiNext]_vars

\* ---------------------------------------------------------------------
\* Trade helpers of the first application (app/utils/helpers.py)
\* ---------------------------------------------------------------------

\* The tickers of the rows, in sorted order, and one that has no row.
Tickers == <<"AAA", "BBB">>
AbsentTicker == "CCC"

Row(ticker, date, price) ==
    [Ticker |-> ticker, Date |-> date, Close |-> price]

\* One row per consecutive day for a ticker.
RowsOf(ticker, v) == [j \in 1..Len(v) |-> Row(ticker, j, v[j])]

\* What the second ticker's rows hold.
OtherTickerSeqs == {<<>>, <<7, 1, 5, 3, 6, 4>>}

\* The caller holds the rows of two tickers, listed by ticker in date
\* order or the other way round.
AppInit ==
    /\ \E v \in PriceSeqs, w \in OtherTickerSeqs, reversed \in BOOLEAN :
          LET listed == RowsOf(Tickers[1], v) \o RowsOf(Tickers[2], w)
          IN rows = IF reversed THEN Reverse(listed) ELSE listed
    /\ df = NoTable
    /\ series = NoSeries
    /\ close = EmptySeries
    /\ NoCall

\* "g = [r for r in rows if r["Ticker"] == ticker]"
RowsForTicker(rs, ticker) ==
    LET Mine(r) == r.Ticker = ticker
    IN SelectSeq(rs, Mine)

\* sorted(g, key=Date): a stable sort, here by insertion.
RECURSIVE InsertByDate(_, _)
InsertByDate(r, sorted) ==
    IF sorted = <<>> THEN <<r>>
    ELSE IF Head(sorted).Date <= r.Date
    THEN <<Head(sorted)>> \o InsertByDate(r, Tail(sorted))
    ELSE <<r>> \o sorted

RECURSIVE SortedByDate(_, _, _)
SortedByDate(g, k, sorted) ==
    IF k > Len(g) THEN sorted
    ELSE SortedByDate(g, k + 1, InsertByDate(g[k], sorted))

\* "cur_p > prev_p and (is_last or g[i + 1]["Close"] < cur_p)", for the
\* step from g[idx] to g[idx + 1] (1-based).
NextDropOrEnd(g, idx) ==
    /\ g[idx + 1].Close > g[idx].Close
    /\ \/ idx + 1 = Len(g)
       \/ g[idx + 2].Close < g[idx + 1].Close

\* The loop "for i in range(1, len(g))" with its locals; no buy is
\* recorded as date 0 and price 0, which is read only while holding.
RECURSIVE TradeLoop(_, _, _, _, _, _, _)
TradeLoop(g, ticker, idx, holding, buy_date, buy_price, trades) ==
    IF idx > Len(g) - 1 THEN trades
    ELSE LET prev == g[idx]
             cur == g[idx + 1]
             buys == ~holding /\ cur.Close > prev.Close
             held == holding \/ buys
             bought_on == IF buys THEN prev.Date ELSE buy_date
             bought_at == IF buys THEN prev.Close ELSE buy_price
             sells == held /\ NextDropOrEnd(g, idx)
             trade == [Ticker |-> ticker,
                       buy_date |-> bought_on,
                       buy_price |-> bought_at,
                       sell_date |-> cur.Date,
                       sell_price |-> cur.Close,
                       profit |-> cur.Close - bought_at]
         IN TradeLoop(g, ticker, idx + 1,
                      IF sells THEN FALSE ELSE held,
                      bought_on, bought_at,
                      IF sells THEN Append(trades, trade) ELSE trades)

ExtractTradesForTickerManual(rs, ticker) ==
    TradeLoop(SortedByDate(RowsForTicker(rs, ticker), 1, <<>>), ticker,
              1, FALSE, 0, 0, <<>>)

\* sorted(set(r["Ticker"] for r in rows))
TickersOf(rs) ==
    LET Listed(t) == \E j \in 1..Len(rs) : rs[j].Ticker = t
    IN SelectSeq(Tickers, Listed)

RECURSIVE SumOfProfits(_)
SumOfProfits(trades) ==
    IF trades = <<>> THEN 0
    ELSE Head(trades).profit + SumOfProfits(Tail(trades))

\* out.sort(key=Max_Profit, reverse=True): stable, largest first.
RECURSIVE InsertByProfit(_, _)
InsertByProfit(e, sorted) ==
    IF sorted = <<>> THEN <<e>>
    ELSE IF Head(sorted).Max_Profit >= e.Max_Profit
    THEN <<Head(sorted)>> \o InsertByProfit(e, Tail(sorted))
    ELSE <<e>> \o sorted

RECURSIVE SummaryLoop(_, _, _, _)
SummaryLoop(rs, tickers, k, sorted) ==
    IF k > Len(tickers) THEN sorted
    ELSE SummaryLoop(rs, tickers, k + 1,
             InsertByProfit(
                 [Ticker |-> tickers[k],
                  Max_Profit |->
                     SumOfProfits(
                        ExtractTradesForTickerManual(rs, tickers[k]))],
                 sorted))

MaxProfitSummaryManual(rs) == SummaryLoop(rs, TickersOf(rs), 1, <<>>)

RECURSIVE TradesLoop(_, _, _, _)
TradesLoop(rs, tickers, k, acc) ==
    IF k > Len(tickers) THEN acc
    ELSE TradesLoop(rs, tickers, k + 1,
             acc \o ExtractTradesForTickerManual(rs, tickers[k]))

TradesForAllManual(rs) == TradesLoop(rs, TickersOf(rs), 1, <<>>)

\* compute_max_profit of app/services/core.py: the loop over range(n - 1)
\* that adds every rise (idx is the 0-based i).
RECURSIVE AppMaxProfitLoop(_, _, _)
AppMaxProfitLoop(v, idx, total) ==
    IF idx >= Len(v) - 1 THEN total
    ELSE AppMaxProfitLoop(v, idx + 1,
             IF v[idx + 2] > v[idx + 1]
             THEN total + (v[idx + 2] - v[idx + 1])
             ELSE total)

AppComputeMaxProfit(v) == AppMaxProfitLoop(v, 0, 0)

\* The closing prices of a ticker's rows in date order.
ClosesOf(rs, ticker) ==
    LET g == SortedByDate(RowsForTicker(rs, ticker), 1, <<>>)
    IN [j \in 1..Len(g) |-> g[j].Close]

extract_trades_for_ticker_manual ==
    /\ pc = "idle"
    /\ \E ticker \in {Tickers[j] : j \in 1..Len(Tickers)}
                        \cup {AbsentTicker} :
          ret' = [NoResult EXCEPT
                     !.fn = "extract_trades_for_ticker_manual",
                     !.status = "ok",
                     !.ticker = ticker,
                     !.trades = ExtractTradesForTickerManual(rows, ticker)]
    /\ UNCHANGED <<app_vars, series, analytics_vars>>

trades_for_all_manual ==
    /\ pc = "idle"
    /\ ret' = [NoResult EXCEPT !.fn = "trades_for_all_manual",
                               !.status = "ok",
                               !.trades = TradesForAllManual(rows)]
    /\ UNCHANGED <<app_vars, series, analytics_vars>>

max_profit_summary_manual ==
    /\ pc = "idle"
    /\ ret' = [NoResult EXCEPT !.fn = "max_profit_summary_manual",
                               !.status = "ok",
                               !.summary = MaxProfitSummaryManual(rows)]
    /\ UNCHANGED <<app_vars, series, analytics_vars>>

\* compute_max_profit of the first application on one ticker's closes.
app_compute_max_profit ==
    /\ pc = "idle"
    /\ \E j \in 1..Len(Tickers) :
          ret' = [NoResult EXCEPT
                     !.fn = "app_compute_max_profit",
                     !.status = "ok",
                     !.ticker = Tickers[j],
                     !.profit =
                        AppComputeMaxProfit(ClosesOf(rows, Tickers[j]))]
    /\ UNCHANGED <<app_vars, series, analytics_vars>>

AppNext ==
    \/ extract_trades_for_ticker_manual
    \/ trades_for_all_manual
    \/ max_profit_summary_manual
    \/ app_compute_max_profit

AppSpec == AppInit /\ [][AppNext]_vars

\* =====================================================================
\* Properties
\* =====================================================================

Max(a, b) == IF a >= b THEN a ELSE b

SameShape(sr) ==
    /\ Len(sr.values) = n
    /\ sr.index = close.index

\* v[lo] + ... + v[hi], computed afresh.
RECURSIVE WindowSum(_, _, _)
WindowSum(v, lo, hi) ==
    IF lo > hi THEN 0 ELSE v[lo] + WindowSum(v, lo + 1, hi)

\* x is the exact fraction a / b.
IsFraction(x, a, b) == x.kind = "num" /\ x.num * b = a * x.den

Returned(f) == ret.fn = f

\* C1: for 1 <= window <= n, compute_sma returns a series of the input's
\* length and index whose first window-1 entries are missing and whose
\* entry at every later index is the mean of the window ending there.
SmaIsWindowMean ==
    (Returned("compute_sma") /\ 1 <= ret.window /\ ret.window <= n) =>
        /\ ret.status = "ok"
        /\ SameShape(ret.series)
        /\ \A k \in 1..n :
              IF k < ret.window
              THEN IsMissing(ret.series.values[k])
              ELSE IsFraction(ret.series.values[k],
                              WindowSum(values, k - ret.window + 1, k),
                              ret.window)

\* A window that has slid at least twice over prices that are not all equal.
SmaIsWindowMeanWitness ==
    /\ Returned("compute_sma")
    /\ ret.window >= 2
    /\ n >= ret.window + 2
    /\ values[1] # values[n]
    /\ ~IsMissing(ret.series.values[n])

\* Sum over consecutive pairs of max(0, v[k+1] - v[k]).
RECURSIVE SumOfRises(_)
SumOfRises(v) ==
    IF Len(v) <= 1 THEN 0
    ELSE Max(0, v[2] - v[1]) + SumOfRises(Tail(v))

\* C2: compute_max_profit(close) is the sum over all consecutive pairs of
\* max(0, close[i+1] - close[i]).
MaxProfitIsSumOfRises ==
    Returned("compute_max_profit") =>
        /\ ret.status = "ok"
        /\ ret.profit = SumOfRises(values)

\* [7,1,5,3,6,4] gives (5-1) + (6-3) = 7.
MaxProfitIsSumOfRisesWitness ==
    /\ Returned("compute_max_profit")
    /\ values = <<7, 1, 5, 3, 6, 4>>
    /\ ret.profit = 7

\* A trading strategy says what to do on each day.  Selling and buying
\* again on one day at one price is the same as holding, so three moves
\* describe every strategy.
Moves == {"none", "buy", "sell"}
Strategies(len) == [1..len -> Moves]

\* Walk the days: a buy needs an empty hand, a sell a held unit, and the
\* strategy must end with an empty hand.  The result is the cash earned,
\* or "invalid".
RECURSIVE Trade(_, _, _, _, _)
Trade(v, st, day, holding, cash) ==
    IF day > Len(v)
    THEN [valid |-> ~holding, cash |-> cash]
    ELSE IF st[day] = "buy"
    THEN IF holding THEN [valid |-> FALSE, cash |-> 0]
         ELSE Trade(v, st, day + 1, TRUE, cash - v[day])
    ELSE IF st[day] = "sell"
    THEN IF ~holding THEN [valid |-> FALSE, cash |-> 0]
         ELSE Trade(v, st, day + 1, FALSE, cash + v[day])
    ELSE Trade(v, st, day + 1, holding, cash)

StrategyProfits(v) ==
    {t.cash : t \in {u \in {Trade(v, st, 1, FALSE, 0) : st \in Strategies(Len(v))} :
                        u.valid}}

\* C3: the value compute_max_profit returns is the most any strategy of
\* buying and selling one unit (at most one held, buy before sell, no
\* cooldown) earns: none earns more and some strategy earns exactly that.
MaxProfitIsOptimal ==
    Returned("compute_max_profit") =>
        /\ \A p \in StrategyProfits(values) : p <= ret.profit
        /\ ret.profit \in StrategyProfits(values)

\* An input where the best strategy needs two separate trades.
MaxProfitIsOptimalWitness ==
    /\ Returned("compute_max_profit")
    /\ n = 4
    /\ values[2] > values[1]
    /\ values[3] < values[2]
    /\ values[4] > values[3]
    /\ ret.profit = (values[2] - values[1]) + (values[4] - values[3])

\* Steps lo..hi (step k goes from v[k] to v[k+1]) all rise / all fall.
AllRise(v, lo, hi) == \A k \in lo..hi : v[k + 1] > v[k]
AllFall(v, lo, hi) == \A k \in lo..hi : v[k + 1] < v[k]

SetMax(S) == CHOOSE x \in S : \A y \in S : y <= x

LongestRise(v) ==
    SetMax({0} \cup {hi - lo + 1 : <<lo, hi>> \in
                 {r \in (1..(Len(v) - 1)) \X (1..(Len(v) - 1)) :
                      r[1] <= r[2] /\ AllRise(v, r[1], r[2])}})

LongestFall(v) ==
    SetMax({0} \cup {hi - lo + 1 : <<lo, hi>> \in
                 {r \in (1..(Len(v) - 1)) \X (1..(Len(v) - 1)) :
                      r[1] <= r[2] /\ AllFall(v, r[1], r[2])}})

\* C4: for n >= 2, longest_up is the largest number of consecutive
\* strictly increasing steps and longest_down the largest number of
\* consecutive strictly decreasing steps; a strictly increasing sequence
\* of n elements gives (n-1, 0).
StreakIsLongestRun ==
    (Returned("compute_streak") /\ n >= 2) =>
        /\ ret.up = LongestRise(values)
        /\ ret.down = LongestFall(values)
        /\ AllRise(values, 1, n - 1) => (ret.up = n - 1 /\ ret.down = 0)

\* A strictly increasing input of four prices: the run ends with the input.
StreakIsLongestRunWitness ==
    /\ Returned("compute_streak")
    /\ n = 4
    /\ AllRise(values, 1, 3)
    /\ ret.up = 3

\* C5: a flat step ends the active streak without extending it and counts
\* for neither direction, so [1,2,2,3] gives longest_up = 1.
FlatBreaksStreak ==
    /\ (pc = "streak" /\ i >= 2 /\ values[i] = values[i - 1]) =>
          (current_streak = 0 /\ current_direction = 0)
    /\ (Returned("compute_streak") /\ values = <<1, 2, 2, 3>>) =>
          (ret.up = 1 /\ ret.down = 0)
    /\ (Returned("compute_streak") /\ n >= 2
          /\ \A k \in 1..(n - 1) : values[k + 1] = values[k]) =>
          (ret.up = 0 /\ ret.down = 0)

FlatBreaksStreakWitness ==
    /\ Returned("compute_streak")
    /\ values = <<1, 2, 2, 3>>
    /\ ret.up = 1

\* C6: the mask has the input's length and index, its elements are in
\* {-1, 0, 1}, mask[0] = 0, and mask[i] is +1, -1 or 0 as close[i] is
\* above, below or equal to close[i-1].
MaskIsDirection ==
    Returned("compute_streak") =>
        /\ ret.status = "ok"
        /\ SameShape(ret.mask)
        /\ \A k \in 1..n : ret.mask.values[k] \in {0 - 1, 0, 1}
        /\ n >= 1 => ret.mask.values[1] = 0
        /\ \A k \in 2..n :
              /\ values[k] > values[k - 1] => ret.mask.values[k] = 1
              /\ values[k] < values[k - 1] => ret.mask.values[k] = 0 - 1
              /\ values[k] = values[k - 1] => ret.mask.values[k] = 0

\* A mask that holds all three directions after its first element.
MaskIsDirectionWitness ==
    /\ Returned("compute_streak")
    /\ n = 4
    /\ {ret.mask.values[k] : k \in 2..4} = {0 - 1, 0, 1}

\* C7: for every input, the empty one included, compute_sdr returns a
\* series of the input's length and index.
SdrKeepsLength ==
    Returned("compute_sdr") =>
        /\ ret.status = "ok"
        /\ SameShape(ret.series)

\* C8: for a non-empty input output[0] is missing and output[i], i >= 1,
\* is missing exactly when input[i-1] is zero; a zero previous price
\* neither raises nor gives an infinity.
SdrMissingIffZeroPrevious ==
    (Returned("compute_sdr") /\ n >= 1) =>
        /\ ret.status = "ok"
        /\ SameShape(ret.series)
        /\ IsMissing(ret.series.values[1])
        /\ \A k \in 2..n :
              IsMissing(ret.series.values[k]) <=> (values[k - 1] = 0)
        /\ \A k \in 1..n : ret.series.values[k].kind # "inf"
        /\ (\A k \in 1..n : values[k] # 0) =>
              Cardinality({k \in 1..n : IsMissing(ret.series.values[k])}) = 1
        /\ values = <<0, 5>> => ret.series.values = <<NaN, NaN>>

SdrMissingIffZeroPreviousWitness ==
    /\ Returned("compute_sdr")
    /\ values = <<0, 5>>
    /\ ret.status = "ok"
    /\ IsMissing(ret.series.values[2])

\* C9: for i >= 1 with input[i-1] # 0, output[i] is
\* (input[i] - input[i-1]) / input[i-1]; [100,110,99] gives
\* [missing, 1/10, -1/10].
SdrIsFractionalChange ==
    (Returned("compute_sdr") /\ n >= 1) =>
        /\ \A k \in 2..n :
              values[k - 1] # 0 =>
                  IsFraction(ret.series.values[k],
                             values[k] - values[k - 1], values[k - 1])
        /\ values = <<100, 110, 99>> =>
              /\ IsMissing(ret.series.values[1])
              /\ IsFraction(ret.series.values[2], 1, 10)
              /\ IsFraction(ret.series.values[3], 0 - 1, 10)

SdrIsFractionalChangeWitness ==
    /\ Returned("compute_sdr")
    /\ values = <<100, 110, 99>>
    /\ IsFraction(ret.series.values[3], 0 - 1, 10)

MaxProfitNonNegative ==
    Returned("compute_max_profit") =>
        /\ ret.profit >= 0
        /\ (\A k \in 1..(n - 1) : values[k + 1] <= values[k]) => ret.profit = 0
        /\ n <= 1 => ret.profit = 0

\* A falling sequence of at least three prices went through the loop.
MaxProfitNonNegativeWitness ==
    /\ Returned("compute_max_profit")
    /\ n >= 3
    /\ AllFall(values, 1, n - 1)
    /\ ret.profit = 0

\* C12: for a sequence of length <= 1, compute_streak returns
\* longest_up = 0, longest_down = 0 and an all-zero mask of the input's
\* length.
StreakShortInput ==
    (Returned("compute_streak") /\ n <= 1) =>
        /\ ret.status = "ok"
        /\ ret.up = 0
        /\ ret.down = 0
        /\ SameShape(ret.mask)
        /\ \A k \in 1..n : ret.mask.values[k] = 0

StreakShortInputWitness ==
    /\ Returned("compute_streak")
    /\ n = 1
    /\ ret.mask.values = <<0>>

\* ---- the cleaning pipeline ----

SetMin(S) == CHOOSE x \in S : \A y \in S : x <= y

IsWeekend(day) == day % 7 \in {5, 6}

HasValue(s) == \E k \in 1..Len(s.values) : ~IsMissing(s.values[k])

\* The value fill_gaps is to put at position k: the value itself, else the
\* nearest earlier value, else the nearest later one, else still missing.
NearestFill(v, k) ==
    LET before == {j \in 1..(k - 1) : ~IsMissing(v[j])}
        after == {j \in (k + 1)..Len(v) : ~IsMissing(v[j])}
    IN IF ~IsMissing(v[k]) THEN v[k]
       ELSE IF before # {} THEN v[SetMax(before)]
       ELSE IF after # {} THEN v[SetMin(after)]
       ELSE NaN

\* Positions of the Monday-to-Friday rows, and the j-th of them.
WeekdayRows(index) == {k \in 1..Len(index) : ~IsWeekend(index[k])}
NthOf(K, j) == CHOOSE k \in K : Cardinality({x \in K : x <= k}) = j

\* C13: fill_gaps keeps length and index; a value that is present stays, a
\* missing one becomes the nearest earlier value, else the nearest later
\* one, and an input without any value stays all missing.
FillGapsPointwise ==
    Returned("fill_gaps") =>
        /\ ret.status = "ok"
        /\ ret.cleaned.index = ret.arg.index
        /\ ret.cleaned.datetime = ret.arg.datetime
        /\ Len(ret.cleaned.values) = Len(ret.arg.values)
        /\ \A k \in 1..Len(ret.arg.values) :
              ret.cleaned.values[k] = NearestFill(ret.arg.values, k)
        /\ ~HasValue(ret.arg) =>
              \A k \in 1..Len(ret.arg.values) : IsMissing(ret.cleaned.values[k])

\* An inner gap between two different values takes the earlier one.
FillGapsPointwiseWitness ==
    /\ Returned("fill_gaps")
    /\ ret.argfrom = "caller"
    /\ Len(ret.arg.values) = 3
    /\ ~IsMissing(ret.arg.values[1])
    /\ IsMissing(ret.arg.values[2])
    /\ ~IsMissing(ret.arg.values[3])
    /\ ret.arg.values[1] # ret.arg.values[3]
    /\ ret.cleaned.values[2] = ret.arg.values[1]

InSeq(x, sq) == \E k \in 1..Len(sq) : sq[k] = x

\* C14: clean_data runs the fill step only when has_missing(series) is
\* true, and runs remove_non_trading_days on every call.
CleanDataFillsOnlyIfMissing ==
    Returned("clean_data") =>
        /\ InSeq("fill_gaps", ret.steps) <=> HasMissing(ret.arg)
        /\ InSeq("remove_non_trading_days", ret.steps)

\* C15: clean_data fills before it filters: its rows are the weekday rows
\* of the input, each with the value fill_gaps gives that row in the
\* unfiltered series, and it equals remove_non_trading_days applied to the
\* result of fill_gaps.
CleanDataFillsBeforeFilter ==
    /\ Returned("clean_data") =>
          LET K == WeekdayRows(ret.arg.index)
          IN /\ Len(ret.cleaned.values) = Cardinality(K)
             /\ Len(ret.cleaned.index) = Cardinality(K)
             /\ \A j \in 1..Cardinality(K) :
                   /\ ret.cleaned.index[j] = ret.arg.index[NthOf(K, j)]
                   /\ ret.cleaned.values[j] =
                         NearestFill(ret.arg.values, NthOf(K, j))
    /\ (Returned("remove_non_trading_days") /\ ret.argfrom = "fill_gaps") =>
          ret.cleaned = CleanData(series)

\* Saturday holds a value, Sunday and Monday are missing: Monday gets
\* Saturday's value although Saturday is dropped.
CleanDataFillsBeforeFilterWitness ==
    /\ Returned("clean_data")
    /\ ret.argfrom = "caller"
    /\ Len(ret.arg.values) = 3
    /\ ret.arg.index[1] % 7 = 5
    /\ ~IsMissing(ret.arg.values[1])
    /\ IsMissing(ret.arg.values[2])
    /\ IsMissing(ret.arg.values[3])
    /\ Len(ret.cleaned.values) = 1
    /\ ret.cleaned.index = <<ret.arg.index[3]>>
    /\ ret.cleaned.values = <<ret.arg.values[1]>>

NoWeekend(s) == \A k \in 1..Len(s.index) : ~IsWeekend(s.index[k])

\* C16 as stated: for every input with at least one missing value, the
\* result of clean_data has no missing value, is no longer than the input
\* and has no Saturday or Sunday.
CleanDataLeavesNoGap ==
    (Returned("clean_data") /\ HasMissing(ret.arg)) =>
        /\ ~HasMissing(ret.cleaned)
        /\ Len(ret.cleaned.values) <= Len(ret.arg.values)
        /\ NoWeekend(ret.cleaned)

\* C16 (amended): for every input with at least one missing and at least
\* one non-missing value, the result of clean_data has no missing value, is
\* no longer than the input and has no Saturday or Sunday.
CleanDataLeavesNoGapIfAnyValue ==
    (Returned("clean_data") /\ HasMissing(ret.arg) /\ HasValue(ret.arg)) =>
        /\ ~HasMissing(ret.cleaned)
        /\ Len(ret.cleaned.values) <= Len(ret.arg.values)
        /\ NoWeekend(ret.cleaned)

\* A leading gap on a weekday, filled from the only value, which follows.
CleanDataLeavesNoGapIfAnyValueWitness ==
    /\ Returned("clean_data")
    /\ ret.argfrom = "caller"
    /\ Len(ret.arg.values) >= 3
    /\ IsMissing(ret.arg.values[1])
    /\ ~IsWeekend(ret.arg.index[1])
    /\ HasValue(ret.arg)
    /\ \E k \in 1..Len(ret.arg.index) : IsWeekend(ret.arg.index[k])
    /\ ~HasMissing(ret.cleaned)
    /\ Len(ret.cleaned.values) >= 1

\* C17: remove_non_trading_days returns exactly the Monday-to-Friday rows
\* of its input, in order and with their values; no weekend row stays and
\* no weekday row goes.
RemoveKeepsExactlyWeekdays ==
    Returned("remove_non_trading_days") =>
        LET K == WeekdayRows(ret.arg.index)
        IN /\ ret.status = "ok"
           /\ Len(ret.cleaned.values) = Cardinality(K)
           /\ Len(ret.cleaned.index) = Cardinality(K)
           /\ \A j \in 1..Cardinality(K) :
                 /\ ret.cleaned.index[j] = ret.arg.index[NthOf(K, j)]
                 /\ ret.cleaned.values[j] = ret.arg.values[NthOf(K, j)]
           /\ NoWeekend(ret.cleaned)

\* Sunday, Monday, Tuesday: the last two rows stay.
RemoveKeepsExactlyWeekdaysWitness ==
    /\ Returned("remove_non_trading_days")
    /\ ret.argfrom = "caller"
    /\ Len(ret.arg.index) = 3
    /\ ret.arg.index[1] % 7 = 6
    /\ ret.arg.values[2] # ret.arg.values[3]
    /\ Len(ret.cleaned.index) = 2
    /\ ret.cleaned.values = <<ret.arg.values[2], ret.arg.values[3]>>

\* C18: remove_non_trading_days applied to its own result returns that
\* result.
RemoveIsIdempotent ==
    (Returned("remove_non_trading_days")
        /\ ret.argfrom = "remove_non_trading_days") =>
        ret.cleaned = ret.arg

\* The first application dropped a row and converted the index.
RemoveIsIdempotentWitness ==
    /\ Returned("remove_non_trading_days")
    /\ ret.argfrom = "remove_non_trading_days"
    /\ ~series.datetime
    /\ Len(ret.arg.index) >= 1
    /\ Len(ret.arg.index) < Len(series.index)
    /\ ret.cleaned = ret.arg

\* C19: for a series without weekend dates and without missing values,
\* clean_data returns the same length, dates and values.
CleanDataKeepsCleanInput ==
    (Returned("clean_data") /\ ~HasMissing(ret.arg) /\ NoWeekend(ret.arg)) =>
        /\ Len(ret.cleaned.values) = Len(ret.arg.values)
        /\ ret.cleaned.index = ret.arg.index
        /\ ret.cleaned.values = ret.arg.values

\* Three weekdays ending on a Friday, all with a value.
CleanDataKeepsCleanInputWitness ==
    /\ Returned("clean_data")
    /\ ret.argfrom = "caller"
    /\ Len(ret.arg.values) = 3
    /\ ret.arg.index[3] % 7 = 4
    /\ ~HasMissing(ret.arg)
    /\ ret.cleaned.values = ret.arg.values

\* ---- outliers ----

Present(v) == {j \in 1..Len(v) : ~IsMissing(v[j])}

\* The r-th smallest of the present values (the prices of the model are
\* whole numbers, so a value is its numerator).
RankValue(v, r) ==
    LET nums == {v[j].num : j \in Present(v)}
    IN CHOOSE x \in nums :
          /\ Cardinality({j \in Present(v) : v[j].num < x}) < r
          /\ Cardinality({j \in Present(v) : v[j].num <= x}) >= r

\* Four times the c/4 percentile of the present values: the weighted mean
\* of the two ranks that surround position c * (m - 1) / 4.
Percentile4(v, c) ==
    LET m == Cardinality(Present(v))
        h == c * (m - 1)
        lo == h \div 4
        w == h % 4
    IN IF w = 0 THEN 4 * RankValue(v, lo + 1)
       ELSE (4 - w) * RankValue(v, lo + 1) + w * RankValue(v, lo + 2)

\* x is below Q1 - k*IQR or above Q3 + k*IQR, everything scaled by
\* 4 * k.den to stay in whole numbers.
OutsideFences(x, v, k) ==
    LET q1 == Percentile4(v, 1)
        q3 == Percentile4(v, 3)
        lower == q1 * k.den - k.num * (q3 - q1)
        upper == q3 * k.den + k.num * (q3 - q1)
    IN \/ x.num * 4 * k.den < lower
       \/ x.num * 4 * k.den > upper

\* C20: outlier_mask_iqr(series, k) returns a boolean series of the
\* input's length and index whose element i is true exactly when series[i]
\* is below Q1 - k*IQR or above Q3 + k*IQR, the quartiles being those of
\* the whole input; a value equal to a fence is not flagged.
OutlierMaskIsFenceTest ==
    Returned("outlier_mask_iqr") =>
        /\ ret.status = "ok"
        /\ ret.flags.index = ret.arg.index
        /\ Len(ret.flags.values) = Len(ret.arg.values)
        /\ \A j \in 1..Len(ret.arg.values) :
              /\ ret.flags.values[j] \in BOOLEAN
              /\ ret.flags.values[j] <=>
                    (/\ j \in Present(ret.arg.values)
                     /\ OutsideFences(ret.arg.values[j], ret.arg.values,
                                      ret.k))
        /\ (ret.k = Float(1, 1)
              /\ ret.arg.values = <<Float(0, 1), Float(0, 1), Float(2, 1)>>) =>
              ret.flags.values = <<FALSE, FALSE, FALSE>>

\* [0, 0, 2] has Q1 = 0, Q3 = 1, IQR = 1.  With k = 1 the upper fence is 2
\* and 2, on the fence, is not flagged; with k = 1/2 the fence is 3/2 and
\* 2 is flagged while the zeros are not.
OutlierMaskIsFenceTestWitness ==
    /\ Returned("outlier_mask_iqr")
    /\ ret.argfrom = "caller"
    /\ ret.k = Float(1, 2)
    /\ ret.arg.values = <<Float(0, 1), Float(0, 1), Float(2, 1)>>
    /\ ret.flags.values = <<FALSE, FALSE, TRUE>>

\* Every entry is present and equals the first.
AllIdentical(v) ==
    /\ Len(v) >= 1
    /\ \A j \in 1..Len(v) : ~IsMissing(v[j]) /\ v[j] = v[1]

\* C21: for a series whose values are all identical, outlier_mask_iqr
\* returns a mask that is false everywhere, for every multiplier k:
\* the IQR is 0 and both fences equal the constant.
ConstantSeriesUnflagged ==
    (Returned("outlier_mask_iqr") /\ AllIdentical(ret.arg.values)) =>
        /\ ret.status = "ok"
        /\ Len(ret.flags.values) = Len(ret.arg.values)
        /\ \A j \in 1..Len(ret.flags.values) : ret.flags.values[j] = FALSE
        /\ IsFraction(IqrBounds(ret.arg, ret.k).iqr, 0, 1)
        /\ IsFraction(IqrBounds(ret.arg, ret.k).lower, ret.arg.values[1].num, 1)
        /\ IsFraction(IqrBounds(ret.arg, ret.k).upper, ret.arg.values[1].num, 1)

\* [2, 2, 2] with the negative multiplier -1: the fences are still 2.
ConstantSeriesUnflaggedWitness ==
    /\ Returned("outlier_mask_iqr")
    /\ ret.argfrom = "caller"
    /\ ret.k = Float(0 - 1, 1)
    /\ ret.arg.values = <<Float(2, 1), Float(2, 1), Float(2, 1)>>
    /\ ret.flags.values = <<FALSE, FALSE, FALSE>>

\* C22: clean_outliers_iqr(series, replace_with_nan=True, k) makes missing
\* exactly the positions that outlier_mask_iqr(series, k) flags and leaves
\* every other value, the length and the index unchanged.
MaskingFollowsOutlierMask ==
    (Returned("clean_outliers_iqr") /\ ret.replace_with_nan) =>
        LET flags == OutlierMaskIqr(ret.arg, ret.k).values
        IN /\ ret.status = "ok"
           /\ ret.cleaned.index = ret.arg.index
           /\ Len(ret.cleaned.values) = Len(ret.arg.values)
           /\ \A j \in 1..Len(ret.arg.values) :
                 IF flags[j]
                 THEN /\ IsMissing(ret.cleaned.values[j])
                      /\ ~IsMissing(ret.arg.values[j])
                 ELSE ret.cleaned.values[j] = ret.arg.values[j]

\* [0, 0, 2] with k = 1/2: only the 2 is flagged and only it goes missing.
MaskingFollowsOutlierMaskWitness ==
    /\ Returned("clean_outliers_iqr")
    /\ ret.replace_with_nan
    /\ ret.k = Float(1, 2)
    /\ ret.arg.values = <<Float(0, 1), Float(0, 1), Float(2, 1)>>
    /\ ret.cleaned.values = <<Float(0, 1), Float(0, 1), NaN>>

\* The fences Q1 - k*IQR and Q3 + k*IQR as exact fractions over 4 * k.den,
\* from the rank-selected quartiles.
LowerFence(v, k) ==
    Float(Percentile4(v, 1) * k.den
             - k.num * (Percentile4(v, 3) - Percentile4(v, 1)),
          4 * k.den)

UpperFence(v, k) ==
    Float(Percentile4(v, 3) * k.den
             + k.num * (Percentile4(v, 3) - Percentile4(v, 1)),
          4 * k.den)

\* x and y are the same number.
FEq(x, y) ==
    /\ x.kind = "num"
    /\ y.kind = "num"
    /\ x.num * y.den = y.num * x.den

\* C23: clean_outliers_iqr(series, replace_with_nan=False, k) with k >= 0
\* returns a series of the same length in which every value below the
\* lower fence is the lower fence, every value above the upper fence is
\* the upper fence, every other value is unchanged, and no value is
\* missing that was not missing in the input.
ClippingReplacesByFences ==
    (Returned("clean_outliers_iqr") /\ ~ret.replace_with_nan
        /\ ret.k.num >= 0) =>
        /\ ret.status = "ok"
        /\ ret.cleaned.index = ret.arg.index
        /\ Len(ret.cleaned.values) = Len(ret.arg.values)
        /\ \A j \in 1..Len(ret.arg.values) :
              LET x == ret.arg.values[j]
                  y == ret.cleaned.values[j]
              IN IF IsMissing(x) THEN y = x
                 ELSE IF FLt(x, LowerFence(ret.arg.values, ret.k))
                 THEN FEq(y, LowerFence(ret.arg.values, ret.k))
                 ELSE IF FGt(x, UpperFence(ret.arg.values, ret.k))
                 THEN FEq(y, UpperFence(ret.arg.values, ret.k))
                 ELSE y = x

\* [0, 1, 2] with k = 0: the fences are the quartiles 1/2 and 3/2, so 0
\* is raised to 1/2, 2 is lowered to 3/2 and 1 stays.
ClippingReplacesByFencesWitness ==
    /\ Returned("clean_outliers_iqr")
    /\ ~ret.replace_with_nan
    /\ ret.k = Float(0, 1)
    /\ ret.arg.values = <<Float(0, 1), Float(1, 1), Float(2, 1)>>
    /\ FEq(ret.cleaned.values[1], Float(1, 2))
    /\ ret.cleaned.values[2] = Float(1, 1)
    /\ FEq(ret.cleaned.values[3], Float(3, 2))

\* ---- loop-level properties of compute_streak and compute_sma ----

\* The direction of the step from a to b: 1 up, -1 down, 0 flat.
StepSign(a, b) == IF b > a THEN 1 ELSE IF b < a THEN 0 - 1 ELSE 0

\* C26: in compute_streak the longest-up and longest-down tallies never
\* decrease, are left unchanged by every loop iteration that extends the
\* current streak, change only in an iteration where the direction
\* changes or in the check after the loop, and that final check commits a
\* run that ends at the last element.
StreakTalliesOnlyGrowOnTurn ==
    [][pc = "streak" =>
          IF pc' = "streak"
          THEN /\ longest_up_streak' >= longest_up_streak
               /\ longest_down_streak' >= longest_down_streak
               /\ (i' = i + 1 =>
                     LET d == StepSign(values[i], values[i + 1])
                         tallies_kept ==
                            /\ longest_up_streak' = longest_up_streak
                            /\ longest_down_streak' = longest_down_streak
                     IN /\ (d = current_direction /\ d # 0) =>
                              /\ tallies_kept
                              /\ current_streak' = current_streak + 1
                        /\ ~tallies_kept => d # current_direction)
          ELSE /\ ret'.fn = "compute_streak"
               /\ ret'.up = IF current_direction = 1
                            THEN Max(longest_up_streak, current_streak)
                            ELSE longest_up_streak
               /\ ret'.down = IF current_direction = 0 - 1
                              THEN Max(longest_down_streak, current_streak)
                              ELSE longest_down_streak]_vars

\* [0, 1, 2, 3] at the end of the loop: a run of three rises is still
\* open, no tally has been written, and only the final check can commit it.
StreakTalliesOnlyGrowOnTurnWitness ==
    /\ pc = "streak"
    /\ i = n
    /\ values = <<0, 1, 2, 3>>
    /\ current_direction = 1
    /\ current_streak = 3
    /\ longest_up_streak = 0

\* C27: in compute_sma with window >= 1, when output[i] is written the
\* running sum is the sum of input[max(0, i-window+1) .. i]: every value is
\* added once, in its own iteration, and subtracted once, window
\* iterations later.
SmaRunningSumIsWindowSum ==
    [][(pc = "sma" /\ pc' = "sma" /\ i' = i + 1) =>
          /\ window >= 1
          /\ running_sum' =
                WindowSum(values, Max(1, i' - window + 1), i')
          /\ running_sum' - running_sum =
                values[i'] - (IF i' > window THEN values[i' - window] ELSE 0)
          /\ IF i' >= window
             THEN IsFraction(out'[i'], running_sum', window)
             ELSE IsMissing(out'[i'])]_vars

\* Window 2 over [1, 2, 3, 1] after three iterations: 1 has left the sum,
\* which is 2 + 3 = 5 and not the sum of all prices seen.
SmaRunningSumIsWindowSumWitness ==
    /\ pc = "sma"
    /\ window = 2
    /\ i = 3
    /\ values = <<1, 2, 3, 1>>
    /\ running_sum = 5
    /\ IsFraction(out[3], 5, 2)

\* ---- frame ----

\* What a cleaning call returned is what the function gives on its argument.
CleaningResultIsFunctionOfArg(r) ==
    /\ r.fn = "has_missing" => r.has = HasMissing(r.arg)
    /\ r.fn = "fill_gaps" => r.cleaned = FillGaps(r.arg)
    /\ r.fn = "remove_non_trading_days" =>
          r.cleaned = RemoveNonTradingDays(r.arg)
    /\ r.fn = "clean_data" => r.cleaned = CleanData(r.arg)
    /\ r.fn = "outlier_mask_iqr" => r.flags = OutlierMaskIqr(r.arg, r.k)
    /\ r.fn = "clean_outliers_iqr" =>
          r.cleaned = CleanOutliersIqr(r.arg, r.replace_with_nan, r.k)

\* C24: whatever sequence of calls to the cleaning functions and to
\* compute_sma, compute_streak, compute_sdr and compute_max_profit is
\* made, each call leaves the caller's series (values and index) as it
\* was, and no call's result depends on earlier calls: an analytics call
\* starts from freshly initialised locals and a cleaning call's result is
\* determined by its argument.
CallsLeaveInputAlone ==
    [][/\ series' = series
       /\ close' = close
       /\ (pc = "idle" /\ pc' = "sma") =>
             running_sum' = 0 /\ i' = 0 /\ out' = NpFullNaN(n)
       /\ (pc = "idle" /\ pc' = "streak") =>
             /\ longest_up_streak' = 0
             /\ longest_down_streak' = 0
             /\ current_streak' = 0
             /\ current_direction' = 0
             /\ mask' = NpZeros(n)
       /\ (pc = "idle" /\ pc' = "sdr") => daily_returns' = <<PyNone>>
       /\ (pc = "idle" /\ pc' = "profit") => total_profit' = 0 /\ i' = 0
       /\ (pc = "idle" /\ pc' = "idle" /\ ret'.argfrom # "none") =>
             /\ CleaningResultIsFunctionOfArg(ret')
             /\ ret'.argfrom = "caller" => ret'.arg = series
       /\ (pc' = "idle" /\ ret'.fn = "compute_max_profit") =>
             ret'.profit = SumOfRises(values)]_vars

\* remove_non_trading_days has returned the weekday rows of the filled
\* series, under a converted index, while the caller's series still has
\* its gap, its weekend rows and its unconverted index.
CallsLeaveInputAloneWitness ==
    /\ Returned("remove_non_trading_days")
    /\ ret.argfrom = "fill_gaps"
    /\ ret.cleaned.datetime
    /\ Len(ret.cleaned.values) < Len(series.values)
    /\ ~HasMissing(ret.cleaned)
    /\ HasMissing(series)
    /\ ~series.datetime
    /\ Len(close.values) = Len(ret.cleaned.values)

\* ---- UI adapters and filters ----

\* C25: when the table lacks any of Open, High, Low, Close, clean_ohlc
\* raises a key error that names exactly the missing columns, before
\* clean_data is applied to any column, and returns no partial table.
CleanOhlcRaisesBeforeCleaning ==
    (Returned("clean_ohlc") /\ ~(OhlcSet \subseteq ret.argtable.columns)) =>
        /\ ret.status = "KeyError"
        /\ {ret.missing[j] : j \in 1..Len(ret.missing)} =
              OhlcSet \ ret.argtable.columns
        /\ Len(ret.missing) = Cardinality(OhlcSet \ ret.argtable.columns)
        /\ ret.steps = <<>>
        /\ ret.table = NoTable

\* A table of two rows that has Open and Close but neither High nor Low.
CleanOhlcRaisesBeforeCleaningWitness ==
    /\ Returned("clean_ohlc")
    /\ ret.argtable = df
    /\ df.columns = {"Open", "Close", "Volume"}
    /\ Len(df.index) = 2
    /\ ret.status = "KeyError"
    /\ ret.missing = <<"High", "Low">>

\* C29: in display_filters the branch that offers 1m .. 1h plus 1d is
\* never taken: "1 Day" and "5 Day" are both offered 1m, 2m, 5m, 15m, 30m,
\* 1h; "1 Month" is offered 1d, 5d, 1wk, 1mo; every other horizon is
\* offered 1d, 5d, 1wk, 1mo, 3mo; the default interval is the first entry
\* of the list offered.
FiveDayBranchUnreachable ==
    Returned("display_filters") =>
        LET f == ret.filters
        IN /\ f.branch # 2
           /\ f.data_intervals #
                 <<"1m", "2m", "5m", "15m", "30m", "1h", "1d">>
           /\ f.selected_key \in {"1 Day", "5 Day"} =>
                 f.data_intervals = <<"1m", "2m", "5m", "15m", "30m", "1h">>
           /\ f.selected_key = "1 Month" =>
                 f.data_intervals = <<"1d", "5d", "1wk", "1mo">>
           /\ f.selected_key \in {"6 Month", "1 Year", "3 Year", "5 Year"} =>
                 f.data_intervals = <<"1d", "5d", "1wk", "1mo", "3mo">>
           /\ f.default = f.data_intervals[1]
           /\ \E j \in 1..Len(f.data_intervals) :
                 f.selected_interval = f.data_intervals[j]

\* The five-day horizon with the hourly interval picked.
FiveDayBranchUnreachableWitness ==
    /\ Returned("display_filters")
    /\ ret.filters.selected_key = "5 Day"
    /\ ret.filters.branch = 1
    /\ ret.filters.default = "1m"
    /\ ret.filters.selected_interval = "1h"

\* C30: make_price_metrics never reads close.iloc[-2] of a Close column of
\* fewer than two rows: for every table of one row, whether its Close is
\* missing or not, it takes the error path and returns None, and the
\* metrics are computed only when Close has at least two rows.
MetricsGuardCoversShortClose ==
    (Returned("make_price_metrics")
        /\ {"Close", "Open"} \subseteq ret.argtable.columns) =>
        /\ Len(ret.argtable.data["Close"]) = 1 =>
              /\ ret.status = "ok"
              /\ ret.metrics.returned = "None"
        /\ ret.status # "IndexError"
        /\ ret.metrics.returned = "dict" =>
              Len(ret.argtable.data["Close"]) >= 2

\* ---- trade helpers ----

\* The closing prices of a ticker by rank of date, taken straight from the
\* rows (a ticker has one row per date).
ClosesByDate(rs, ticker) ==
    LET mine == {j \in 1..Len(rs) : rs[j].Ticker = ticker}
        dates == {rs[j].Date : j \in mine}
    IN [r \in 1..Cardinality(dates) |->
           rs[CHOOSE j \in mine : rs[j].Date = NthOf(dates, r)].Close]

\* C28: for every list of rows and every ticker in it, the Max_Profit that
\* max_profit_summary_manual reports (the sum of the profits of the trades
\* extract_trades_for_ticker_manual finds) is the sum of the rises of the
\* ticker's closing prices in date order, the value of compute_max_profit,
\* also when a rise is followed by a flat step.
SummaryIsSumOfRises ==
    Returned("max_profit_summary_manual") =>
        \A j \in 1..Len(ret.summary) :
           /\ ret.summary[j].Max_Profit =
                 SumOfRises(ClosesByDate(rows, ret.summary[j].Ticker))
           /\ ret.summary[j].Max_Profit =
                 AppComputeMaxProfit(
                    ClosesByDate(rows, ret.summary[j].Ticker))

====
